---- MODULE Spec2Model ----
(***************************************************************************)
(* Model of the dimuon analysis: main -> parseArgs -> DimuonAnalysis::run, *)
(* the RDataFrame graph it declares (Define / Filter / Histo1D / Report),  *)
(* the event loop over the slots of the engine and the output step.        *)
(*                                                                         *)
(* Units.  Float columns are fixed-point integers: Muon_pt in GeV,         *)
(* Muon_eta in tenths, Muon_pfRelIso04_all in hundredths, Muon_phi in      *)
(* degrees (0 or 180), Muon_mass and four-vector components in 0.01 GeV.   *)
(***************************************************************************)
EXTENDS Integers, Sequences, FiniteSets, TLC

\* ---------------------------------------------------------------- bounds
MaxRows == 2
NSlots == 2
MaxMuons == 2

\* std::optional: empty, or holding one value.
nullopt == <<>>
has_value(o) == o # <<>>
value(o) == o[1]

Min(a, b) == IF a < b THEN a ELSE b

RECURSIVE SumSeq(_)
SumSeq(s) == IF s = <<>> THEN 0 ELSE Head(s) + SumSeq(Tail(s))

RECURSIVE SeqsUpTo(_, _)
SeqsUpTo(S, n) ==
    IF n = 0 THEN {<<>>}
    ELSE LET prev == SeqsUpTo(S, n - 1)
         IN  prev \cup {Append(p, x) : p \in {q \in prev : Len(q) = n - 1}, x \in S}

\* ------------------------------------------------------------- parseArgs
\* std::atoll on optarg: optional sign, then the leading decimal digits;
\* anything from the first non-digit on is ignored, no digits gives 0.
Digits == <<"0", "1", "2", "3", "4", "5", "6", "7", "8", "9">>
IsDigit(c) == \E d \in 1..10 : Digits[d] = c
DigitVal(c) == (CHOOSE d \in 1..10 : Digits[d] = c) - 1

RECURSIVE AtollDigits(_, _)
AtollDigits(s, acc) ==
    IF s = <<>> \/ ~IsDigit(Head(s)) THEN acc
    ELSE AtollDigits(Tail(s), 10 * acc + DigitVal(Head(s)))

atoll(s) ==
    IF s = <<>> THEN 0
    ELSE IF Head(s) = "-" THEN 0 - AtollDigits(Tail(s), 0)
    ELSE IF Head(s) = "+" THEN AtollDigits(Tail(s), 0)
    ELSE AtollDigits(s, 0)

\* The -n arguments tried: plain counts, zero, a negative count, text.
NEventsArgs ==
    { <<"0">>, <<"1">>, <<"-", "1">>, <<"x">>, <<"2", "x">> }

\* A path is the sequence of its components.  The paths tried for -o and
\* -d lie in a directory that does not exist.
NoDirFile == <<"nodir", "output.root">>
NoDir == <<"nodir">>

\* One command line = a sequence of getopt tokens.  opt is the value
\* getopt_long returns: "n", "o" or "d" with its optarg, "h", or "?" for
\* an unknown option or a missing option argument.
ArgvPool ==
    { <<>>, << [opt |-> "h", arg |-> <<>>] >>, << [opt |-> "?", arg |-> <<>>] >> }
    \cup { << [opt |-> "n", arg |-> a] >> : a \in NEventsArgs }
    \cup { << [opt |-> "n", arg |-> <<"1">>], [opt |-> "o", arg |-> NoDirFile] >>,
           << [opt |-> "d", arg |-> NoDir], [opt |-> "n", arg |-> <<"1">>] >> }

AnalysisConfig ==
    [outputFile |-> <<"output.root">>, outputDir |-> <<".">>, maxEvents |-> nullopt]

RECURSIVE parseArgsLoop(_, _)
parseArgsLoop(args, config) ==
    IF args = <<>> THEN [exit |-> nullopt, config |-> config]
    ELSE LET o == Head(args) IN
         CASE o.opt = "n" ->
                parseArgsLoop(Tail(args), [config EXCEPT !.maxEvents = <<atoll(o.arg)>>])
           [] o.opt = "o" ->
                parseArgsLoop(Tail(args), [config EXCEPT !.outputFile = o.arg])
           [] o.opt = "d" ->
                parseArgsLoop(Tail(args), [config EXCEPT !.outputDir = o.arg])
           [] o.opt = "h" -> [exit |-> <<0>>, config |-> config]
           [] OTHER       -> [exit |-> <<1>>, config |-> config]

parseArgs(args) == parseArgsLoop(args, AnalysisConfig)

\* ------------------------------------------------------------ the schema
RequiredColumns ==
    { "HLT_IsoMu24", "HLT_IsoMu18", "nJet", "Muon_pt", "Muon_eta", "Muon_phi",
      "Muon_mass", "Muon_charge", "Muon_tightId", "Muon_pfRelIso04_all" }
AllColumns == RequiredColumns \cup { "Muon_mediumId" }

\* --------------------------------------------------- the dataflow graph
\* Define nodes: derived column -> the columns it is declared over.
DefineInputs ==
    [ passTrigger     |-> {"HLT_IsoMu24", "HLT_IsoMu18"},
      goodMuon_mask   |-> {"Muon_pt", "Muon_eta", "Muon_tightId", "Muon_pfRelIso04_all"},
      nGoodMuon       |-> {"goodMuon_mask"},
      goodMuon_pt     |-> {"Muon_pt", "goodMuon_mask"},
      goodMuon_eta    |-> {"Muon_eta", "goodMuon_mask"},
      goodMuon_phi    |-> {"Muon_phi", "goodMuon_mask"},
      goodMuon_mass   |-> {"Muon_mass", "goodMuon_mask"},
      goodMuon_charge |-> {"Muon_charge", "goodMuon_mask"},
      dimuon_mass     |-> {"goodMuon_pt", "goodMuon_eta", "goodMuon_phi", "goodMuon_mass"},
      muon1_pt        |-> {"goodMuon_pt"},
      muon2_pt        |-> {"goodMuon_pt"} ]
DefineNames == DOMAIN DefineInputs

\* Named filters in declaration order, each with the columns it reads.
FilterInputs == << {"passTrigger"}, {"nGoodMuon"}, {"goodMuon_charge"} >>
NFilters == Len(FilterInputs)

\* Histo1D actions in booking order: name, column, bins, range.
HistoModels ==
    << [name |-> "h_nJet",        column |-> "nJet",        nbins |-> 15, xlow |-> 0, xup |-> 15],
       [name |-> "h_muon1_pt",    column |-> "muon1_pt",    nbins |-> 40, xlow |-> 0, xup |-> 200],
       [name |-> "h_muon2_pt",    column |-> "muon2_pt",    nbins |-> 40, xlow |-> 0, xup |-> 200],
       [name |-> "h_dimuon_mass", column |-> "dimuon_mass", nbins |-> 75, xlow |-> 0, xup |-> 150] >>
NHistos == Len(HistoModels)

\* Defines a set of columns needs, transitively (lazy evaluation: a Define
\* runs for a row only when a filter or action reached by the row asks).
RECURSIVE Needed(_)
Needed(cols) ==
    LET defs == cols \cap DefineNames
        more == UNION { DefineInputs[d] : d \in defs }
    IN  IF more \subseteq cols THEN defs ELSE Needed(cols \cup more)

\* ------------------------------------------------------- RVec operations
\* Elementwise comparison of an RVec with a scalar: an RVec<int> of 0/1.
GtScalar(v, c) == [i \in 1..Len(v) |-> IF v[i] > c THEN 1 ELSE 0]
LtScalar(v, c) == [i \in 1..Len(v) |-> IF v[i] < c THEN 1 ELSE 0]
AbsV(v) == [i \in 1..Len(v) |-> IF v[i] < 0 THEN 0 - v[i] ELSE v[i]]
BoolV(v) == [i \in 1..Len(v) |-> IF v[i] THEN 1 ELSE 0]
\* a && b on two RVecs; the library throws when the sizes differ.
AndV(a, b) == [i \in 1..Min(Len(a), Len(b)) |-> IF a[i] # 0 /\ b[i] # 0 THEN 1 ELSE 0]
Sum(v) == SumSeq(v)

\* v[mask]: the entries of v whose mask entry is set, in the order of v;
\* the library throws when the sizes differ.
RECURSIVE TakeFrom(_, _, _)
TakeFrom(v, mask, i) ==
    IF i > Len(v) \/ i > Len(mask) THEN <<>>
    ELSE IF mask[i] # 0 THEN <<v[i]>> \o TakeFrom(v, mask, i + 1)
    ELSE TakeFrom(v, mask, i + 1)
Take_Reversed(v, mask) ==
    LET t == TakeFrom(v, mask, 1) IN [k \in 1..Len(t) |-> t[Len(t) + 1 - k]]
Take(v, mask) == TakeFrom(v, mask, 1)

\* v[i] of C++ (0-based).  Reading past the end is undefined behaviour:
\* the value read is whatever `garbage` the caller supplies.
At(v, i, garbage) == IF i + 1 <= Len(v) THEN v[i + 1] ELSE garbage

\* ------------------------------------------------------ the Define nodes
PtMin == 20
EtaMax == 24
IsoMax == 15

passTrigger(isoMu24, isoMu18) == isoMu24 \/ isoMu18

goodMuon_mask_Ge(pt, eta, tightId, pfRelIso04_all) ==
    AndV(AndV(AndV([i \in 1..Len(pt) |-> IF pt[i] >= PtMin THEN 1 ELSE 0],
                   LtScalar(AbsV(eta), EtaMax)), BoolV(tightId)),
         LtScalar(pfRelIso04_all, IsoMax))
goodMuon_mask(pt, eta, tightId, pfRelIso04_all) ==
    AndV(AndV(AndV(GtScalar(pt, PtMin), LtScalar(AbsV(eta), EtaMax)), BoolV(tightId)),
         LtScalar(pfRelIso04_all, IsoMax))

nGoodMuon(mask) == Sum(mask)

\* ---------------------------------------------------------- kinematics
\* Floor of the square root, by bisection.
RECURSIVE IsqrtIn(_, _, _)
IsqrtIn(n, lo, hi) ==
    IF lo >= hi THEN lo
    ELSE LET mid == (lo + hi + 1) \div 2
         IN  IF mid * mid <= n THEN IsqrtIn(n, mid, hi) ELSE IsqrtIn(n, lo, mid - 1)
Isqrt(n) == IF n <= 0 THEN 0 ELSE IsqrtIn(n, 0, Min(n, 46340))

\* 1000 * sinh(eta), eta in tenths, for the pseudorapidities of the inputs.
Sinh1000(eta) ==
    LET a == IF eta < 0 THEN 0 - eta ELSE eta
        s == CASE a = 0  -> 0
               [] a = 1  -> 100
               [] a = 23 -> 4937
               [] a = 24 -> 5466
               [] OTHER  -> 6050
    IN  IF eta < 0 THEN 0 - s ELSE s
Cos(phi) == IF phi = 0 THEN 1 ELSE -1
Sin(phi) == 0

\* ROOT::Math::PtEtaPhiMVector as Cartesian components, in 0.01 GeV.
PtEtaPhiMVector(pt, eta, phi, mass) ==
    LET px == 100 * pt * Cos(phi)
        py == 100 * pt * Sin(phi)
        a  == (pt * Sinh1000(IF eta < 0 THEN 0 - eta ELSE eta)) \div 10
        pz == IF eta < 0 THEN 0 - a ELSE a
    IN  [px |-> px, py |-> py, pz |-> pz,
         E |-> Isqrt(px * px + py * py + pz * pz + mass * mass)]

\* (mu1 + mu2).M()
InvariantMass(mu1, mu2) ==
    LET E  == mu1.E + mu2.E
        px == mu1.px + mu2.px
        py == mu1.py + mu2.py
        pz == mu1.pz + mu2.pz
        m2 == E * E - px * px - py * py - pz * pz
    IN  IF m2 >= 0 THEN Isqrt(m2) ELSE 0 - Isqrt(0 - m2)

dimuon_mass(pt, eta, phi, mass, g) ==
    InvariantMass(PtEtaPhiMVector(At(pt, 0, g), At(eta, 0, g), At(phi, 0, 0), At(mass, 0, g)),
                  PtEtaPhiMVector(At(pt, 1, g), At(eta, 1, g), At(phi, 1, 0), At(mass, 1, g)))

\* --------------------------------------------------------------- TH1D
\* TAxis::FindBin: 0 is underflow, nbins + 1 overflow.  `scale` is the
\* number of fixed-point units of x per axis unit.
FindBin(h, x, scale) ==
    IF x < h.xlow * scale THEN 0
    ELSE IF x >= h.xup * scale THEN h.nbins + 1
    ELSE 1 + (h.nbins * (x - h.xlow * scale)) \div ((h.xup - h.xlow) * scale)
ColumnScale(column) == IF column = "dimuon_mass" THEN 100 ELSE 1

EmptyHisto(h) == [entries |-> 0, bins |-> [b \in 0..(h.nbins + 1) |-> 0]]
Fill(hist, bin) == [entries |-> hist.entries + 1,
                    bins |-> [hist.bins EXCEPT ![bin] = @ + 1]]
\* TH1::Add / Merge of two histograms with identical binning.
MergeHisto_Overwrite(a, b) == IF b.entries > 0 THEN b ELSE a
MergeHisto(a, b) == [entries |-> a.entries + b.entries,
                     bins |-> [i \in DOMAIN a.bins |-> a.bins[i] + b.bins[i]]]

\* ------------------------------------------------ one row through the graph
\* Column values of a row.  A row is a record of the source columns.
MaskOf(row) ==
    goodMuon_mask(row.Muon_pt, row.Muon_eta, row.Muon_tightId, row.Muon_pfRelIso04_all)
nGoodMuonOf(row) == nGoodMuon(MaskOf(row))
goodMuon_pt(row) == Take(row.Muon_pt, MaskOf(row))
goodMuon_eta(row) == Take(row.Muon_eta, MaskOf(row))
goodMuon_phi(row) == Take(row.Muon_phi, MaskOf(row))
goodMuon_mass(row) == Take(row.Muon_mass, MaskOf(row))
goodMuon_charge(row) == Take(row.Muon_charge, MaskOf(row))
muon1_pt_Leading(row, g) ==
    IF At(goodMuon_pt(row), 0, g) >= At(goodMuon_pt(row), 1, g)
    THEN At(goodMuon_pt(row), 0, g) ELSE At(goodMuon_pt(row), 1, g)
muon1_pt(row, g) == At(goodMuon_pt(row), 0, g)
muon2_pt(row, g) == At(goodMuon_pt(row), 1, g)
dimuon_massOf(row, g) ==
    dimuon_mass(goodMuon_pt(row), goodMuon_eta(row), goodMuon_phi(row), goodMuon_mass(row), g)

\* A Define throws std::runtime_error when the RVec operation it performs
\* is given vectors of different sizes.
DefineThrows(row, d) ==
    CASE d = "goodMuon_mask" ->
            ~( Len(row.Muon_pt) = Len(row.Muon_eta)
               /\ Len(row.Muon_eta) = Len(row.Muon_tightId)
               /\ Len(row.Muon_tightId) = Len(row.Muon_pfRelIso04_all) )
      [] d = "goodMuon_pt"     -> Len(row.Muon_pt) # Len(MaskOf(row))
      [] d = "goodMuon_eta"    -> Len(row.Muon_eta) # Len(MaskOf(row))
      [] d = "goodMuon_phi"    -> Len(row.Muon_phi) # Len(MaskOf(row))
      [] d = "goodMuon_mass"   -> Len(row.Muon_mass) # Len(MaskOf(row))
      [] d = "goodMuon_charge" -> Len(row.Muon_charge) # Len(MaskOf(row))
      [] OTHER -> FALSE

FilterPredicate_AtMostTwo(row, g, k) ==
    CASE k = 1 -> passTrigger(row.HLT_IsoMu24, row.HLT_IsoMu18)
      [] k = 2 -> nGoodMuonOf(row) <= 2
      [] k = 3 -> At(goodMuon_charge(row), 0, g) * At(goodMuon_charge(row), 1, g) < 0
FilterPredicate_AtLeastTwo(row, g, k) ==
    CASE k = 1 -> passTrigger(row.HLT_IsoMu24, row.HLT_IsoMu18)
      [] k = 2 -> nGoodMuonOf(row) >= 2
      [] k = 3 -> At(goodMuon_charge(row), 0, g) * At(goodMuon_charge(row), 1, g) < 0
\* The three named filters, by position in the chain; g is the value an
\* out-of-bounds read yields.
FilterPredicate(row, g, k) ==
    CASE k = 1 -> passTrigger(row.HLT_IsoMu24, row.HLT_IsoMu18)
      [] k = 2 -> nGoodMuonOf(row) = 2
      [] k = 3 -> At(goodMuon_charge(row), 0, g) * At(goodMuon_charge(row), 1, g) < 0

\* Stage k of a row: filter k for k <= NFilters, the Histo1D actions after.
ActionColumns == { HistoModels[h].column : h \in 1..NHistos }
StageColumns(k) == IF k <= NFilters THEN FilterInputs[k] ELSE ActionColumns
StageDefines == [k \in 1..(NFilters + 1) |-> Needed(StageColumns(k))]
StageThrows(row, k) == \E d \in StageDefines[k] : DefineThrows(row, d)

\* Indexing [0] / [1] of a masked collection that is too short.
StageOutOfBounds(row, k) ==
    CASE k = 3 -> Len(goodMuon_charge(row)) < 2
      [] k = NFilters + 1 ->
            \/ Len(goodMuon_pt(row)) < 2  \/ Len(goodMuon_eta(row)) < 2
            \/ Len(goodMuon_phi(row)) < 2 \/ Len(goodMuon_mass(row)) < 2
      [] OTHER -> FALSE

HistoNode_TwoMuons == NFilters - 1
\* The node the histograms and the report are booked on (withMass), as
\* the number of filters above it.
HistoNode == NFilters

Reached_NoShortCircuit(outcomes, k) == TRUE
\* RFilter::CheckFilters: a node is evaluated for a row only if the node
\* before it in the chain was evaluated and returned true.
Reached(outcomes, k) ==
    \/ k = 1
    \/ k \in 2..NFilters /\ outcomes[k - 1] = "pass"
    \/ k = NFilters + 1 /\ outcomes[HistoNode] = "pass"

\* Outcome of stages 1..k for a row: "skip" (not reached), "throw",
\* "pass" or "fail".  The actions stage passes when it does not throw.
RECURSIVE Outcomes(_, _, _)
Outcomes(row, g, k) ==
    IF k = 0 THEN <<>>
    ELSE LET prev == Outcomes(row, g, k - 1)
         IN  Append(prev,
                    IF ~Reached(prev, k) THEN "skip"
                    ELSE IF StageThrows(row, k) THEN "throw"
                    ELSE IF k > NFilters \/ FilterPredicate(row, g, k) THEN "pass"
                    ELSE "fail")

ColumnValue(row, g, column) ==
    CASE column = "nJet"        -> row.nJet
      [] column = "muon1_pt"    -> muon1_pt(row, g)
      [] column = "muon2_pt"    -> muon2_pt(row, g)
      [] column = "dimuon_mass" -> dimuon_massOf(row, g)

\* What processing one row does to the slot that owns it.
EvalRow(row, g) ==
    LET out == Outcomes(row, g, NFilters + 1)
        stages == { k \in 1..(NFilters + 1) : out[k] # "skip" }
    IN  [ accepted  |-> [k \in 1..NFilters |-> IF out[k] = "pass" THEN 1 ELSE 0],
          rejected  |-> [k \in 1..NFilters |-> IF out[k] = "fail" THEN 1 ELSE 0],
          evaluated |-> UNION { StageDefines[k] : k \in stages },
          throws    |-> \E k \in stages : out[k] = "throw",
          oob       |-> \E k \in stages : out[k] # "throw" /\ StageOutOfBounds(row, k),
          selected  |-> out[NFilters + 1] = "pass",
          fills     |-> IF out[NFilters + 1] = "pass"
                        THEN [h \in 1..NHistos |->
                                FindBin(HistoModels[h],
                                        ColumnValue(row, g, HistoModels[h].column),
                                        ColumnScale(HistoModels[h].column))]
                        ELSE <<>> ]

\* ------------------------------------------------------------ the inputs
Muon(pt, eta, phi, charge, tightId, mediumId, iso) ==
    [pt |-> pt, eta |-> eta, phi |-> phi, mass |-> 11, charge |-> charge,
     tightId |-> tightId, mediumId |-> mediumId, iso |-> iso]

Row(isoMu24, isoMu18, nJet, muons) ==
    [ HLT_IsoMu24 |-> isoMu24, HLT_IsoMu18 |-> isoMu18, nJet |-> nJet,
      Muon_pt      |-> [i \in 1..Len(muons) |-> muons[i].pt],
      Muon_eta     |-> [i \in 1..Len(muons) |-> muons[i].eta],
      Muon_phi     |-> [i \in 1..Len(muons) |-> muons[i].phi],
      Muon_mass    |-> [i \in 1..Len(muons) |-> muons[i].mass],
      Muon_charge  |-> [i \in 1..Len(muons) |-> muons[i].charge],
      Muon_tightId |-> [i \in 1..Len(muons) |-> muons[i].tightId],
      Muon_mediumId |-> [i \in 1..Len(muons) |-> muons[i].mediumId],
      Muon_pfRelIso04_all |-> [i \in 1..Len(muons) |-> muons[i].iso] ]

MuA == Muon(45, 1, 0, 1, TRUE, TRUE, 1)
MuB == Muon(40, -1, 180, -1, TRUE, TRUE, 2)
MuSoft == Muon(10, 1, 0, -1, TRUE, TRUE, 1)

\* The rows a dataset is made of: the four scenarios of the selection, an
\* event without muons, and a pair stored in ascending momentum behind a
\* soft muon.
EventPool ==
    { Row(TRUE, TRUE, 2, <<MuA, MuB>>),
      Row(FALSE, FALSE, 2, <<MuA, MuB>>),
      Row(TRUE, FALSE, 3, <<MuA, MuB, MuA>>),
      Row(FALSE, TRUE, 1, <<MuA, MuA>>),
      Row(FALSE, TRUE, 0, <<>>),
      Row(TRUE, FALSE, 16, <<MuSoft, MuB, MuA>>) }

\* Rows whose per-muon arrays differ in length (a store is free to hold
\* them: the arrays are separate columns).  In turn: eta too short on a
\* row without trigger, eta too short on a triggered row, phi too short on
\* a row with three good muons, phi too short on a row that passes every
\* filter.
Scenario1 == Row(TRUE, TRUE, 2, <<MuA, MuB>>)
MalformedRows ==
    { [Row(FALSE, FALSE, 2, <<MuA, MuB>>) EXCEPT !.Muon_eta = <<1>>],
      [Row(TRUE, TRUE, 2, <<MuA, MuB>>) EXCEPT !.Muon_eta = <<1>>],
      [Row(TRUE, FALSE, 3, <<MuA, MuB, MuA>>) EXCEPT !.Muon_phi = <<0>>],
      [Row(TRUE, TRUE, 2, <<MuA, MuB>>) EXCEPT !.Muon_phi = <<0>>] }

\* Rows probing the quality cuts: one muon taken at and next to every
\* threshold, alone or among good companions.
PtValues == {PtMin, PtMin + 1}
EtaValues == {0 - EtaMax, 1 - EtaMax, EtaMax - 1, EtaMax}
IsoValues == {IsoMax - 1, IsoMax}
ProbeMuons ==
    { Muon(pt, eta, 0, q, t, m, iso) :
        pt \in PtValues, eta \in EtaValues, q \in {-1, 1},
        t \in BOOLEAN, m \in BOOLEAN, iso \in IsoValues }
Companions == SeqsUpTo({MuA, MuB}, MaxMuons - 1)
InsertAt(c, i, p) == SubSeq(c, 1, i) \o <<p>> \o SubSeq(c, i + 1, Len(c))
ProbeRows ==
    UNION { { Row(TRUE, FALSE, 1, InsertAt(c, i, p)) : p \in ProbeMuons, i \in 0..Len(c) } :
            c \in Companions }

\* Datasets: every sequence of pool rows, and every probe row on its own.
\* The probe rows are read by the run limited to one row, with the default
\* output paths, only.
PoolDatasets == SeqsUpTo(EventPool, MaxRows)
ProbeDatasets == { <<r>> : r \in ProbeRows }
\* A malformed row alone, before and after a good row.
MalformedDatasets ==
    UNION { { <<m>>, <<m, Scenario1>>, <<Scenario1, m>> } : m \in MalformedRows }

\* The stores the input path may name: none at all, a complete one, and
\* stores lacking one column.
Stores(cfg) ==
    { [opened |-> TRUE, exists |-> FALSE, columns |-> {}, rows |-> <<>>] }
    \cup { [opened |-> TRUE, exists |-> TRUE, columns |-> AllColumns, rows |-> d] :
             d \in PoolDatasets \cup MalformedDatasets
                   \cup (IF cfg = [AnalysisConfig EXCEPT !.maxEvents = <<1>>]
                         THEN ProbeDatasets ELSE {}) }
    \cup { [opened |-> TRUE, exists |-> TRUE, columns |-> AllColumns \ {col}, rows |-> d] :
             col \in AllColumns, d \in SeqsUpTo(EventPool, 1) }

\* Values an out-of-bounds read of a masked collection may yield.
Garbage == {-1, 1}

\* EvalRow of every row a store may hold, for each value an out-of-bounds
\* read may yield; the nodes are pure, so a row is worked out once.
AllRows == EventPool \cup MalformedRows \cup ProbeRows
RowResults == [row \in AllRows |-> [g \in Garbage |-> EvalRow(row, g)]]

\* ------------------------------------------------------------- the state
VARIABLES
    argv,        \* the command line
    pc,          \* where main / DimuonAnalysis::run stands
    config,      \* m_config
    exitCode,    \* exit status of the process, empty while it runs
    implicitMT,  \* ROOT::IsImplicitMTEnabled()
    store,       \* the input store behind the RDataFrame, once opened
    range,       \* rows [0, range) exposed by the head node
    graph,       \* the nodes declared so far
    engine,      \* state of the event loop
    slots,       \* per-slot partition, counters and histograms
    result,      \* merged counters and histograms
    rowlog,      \* per source row: times processed, Defines run, bad reads,
                 \* whether a node threw, filters passed, whether the
                 \* histograms were filled and the bins filled
    stdout,      \* what was printed of the results
    stderr,      \* errors the output step reported
    files        \* output artefacts written

vars == << argv, pc, config, exitCode, implicitMT, store, range, graph,
           engine, slots, result, rowlog, stdout, stderr, files >>

EmptyGraph == [defines |-> {}, filters |-> 0, histos |-> 0, report |-> FALSE]
ZeroCounters == [k \in 1..NFilters |-> 0]
EmptyResult ==
    [accepted |-> ZeroCounters, rejected |-> ZeroCounters,
     histos |-> [h \in 1..NHistos |-> EmptyHisto(HistoModels[h])]]

Init ==
    /\ argv \in ArgvPool
    /\ pc = "main"
    /\ config = AnalysisConfig
    /\ exitCode = nullopt
    /\ implicitMT = FALSE
    /\ store = [opened |-> FALSE, exists |-> FALSE, columns |-> {}, rows |-> <<>>]
    /\ range = 0
    /\ graph = EmptyGraph
    /\ engine = "NotBuilt"
    /\ slots = <<>>
    /\ result = EmptyResult
    /\ rowlog = <<>>
    /\ stdout = [selected |-> nullopt, cutflow |-> nullopt]
    /\ stderr = {}
    /\ files = {}

\* ------------------------------------------------------------------ main
\* main: parseArgs either fills the configuration or exits the process.
Main_parseArgs ==
    /\ pc = "main"
    /\ LET r == parseArgs(argv) IN
         IF ~has_value(r.exit)
         THEN /\ config' = r.config
              /\ pc' = "run"
              /\ UNCHANGED exitCode
         ELSE /\ exitCode' = r.exit
              /\ pc' = "exited"
              /\ UNCHANGED config
    /\ UNCHANGED << argv, implicitMT, store, range, graph, engine, slots,
                    result, rowlog, stdout, stderr, files >>

UseImplicitMT_Always(c) == TRUE
\* run(): multithreading is switched on unless a row limit is configured.
UseImplicitMT(c) == ~has_value(c.maxEvents)

Run_EnableImplicitMT ==
    /\ pc = "run"
    /\ implicitMT' = UseImplicitMT(config)
    /\ pc' = "open"
    /\ UNCHANGED << argv, config, exitCode, store, range, graph, engine,
                    slots, result, rowlog, stdout, stderr, files >>

\* ROOT::RDataFrame df("Events", inputFile): throws when the file or the
\* tree cannot be opened.
Run_RDataFrame ==
    /\ pc = "open"
    /\ \E st \in Stores(config) :
         /\ store' = st
         /\ pc' = IF st.exists THEN "range" ELSE "thrown"
    /\ UNCHANGED << argv, config, exitCode, implicitMT, range, graph, engine,
                    slots, result, rowlog, stdout, stderr, files >>

\* Number of rows Range(0, end) exposes of nrows.  end is an unsigned int:
\* 0 means "until the end of the dataset", and a negative Long64_t above
\* -2^31 converts to 2^32 + end, beyond every row count of the model.
RangeLast(end, nrows) ==
    IF end = 0 THEN nrows
    ELSE IF end < 0 THEN nrows
    ELSE Min(end, nrows)

\* node = df, or df.Range(0, maxEvents); Range throws under implicit MT.
Run_Range ==
    /\ pc = "range"
    /\ IF ~has_value(config.maxEvents)
       THEN /\ range' = Len(store.rows)
            /\ pc' = "applyTriggerSelection"
       ELSE IF implicitMT
       THEN /\ pc' = "thrown"
            /\ UNCHANGED range
       ELSE /\ range' = RangeLast(value(config.maxEvents), Len(store.rows))
            /\ pc' = "applyTriggerSelection"
    /\ UNCHANGED << argv, config, exitCode, implicitMT, store, graph, engine,
                    slots, result, rowlog, stdout, stderr, files >>

Known_Unchecked == AllColumns \cup graph.defines
\* Declaring nodes: a Define, Filter or Histo1D over a column that neither
\* the store nor an earlier Define provides throws; no row is read.
Known == store.columns \cup graph.defines
Declare(next, defines, nfilters, columns) ==
    /\ IF (columns \cup UNION { DefineInputs[d] : d \in defines })
             \subseteq (Known \cup defines)
       THEN /\ graph' = [graph EXCEPT !.defines = @ \cup defines,
                                      !.filters = @ + nfilters]
            /\ pc' = next
       ELSE /\ pc' = "thrown"
            /\ UNCHANGED graph
    /\ UNCHANGED << argv, config, exitCode, implicitMT, store, range, engine,
                    slots, result, rowlog, stdout, stderr, files >>

applyTriggerSelection ==
    /\ pc = "applyTriggerSelection"
    /\ Declare("applyMuonSelection", {"passTrigger"}, 1, {"passTrigger"})

applyMuonSelection ==
    /\ pc = "applyMuonSelection"
    /\ Declare("applyDimuonSelection",
               {"goodMuon_mask", "nGoodMuon", "goodMuon_pt", "goodMuon_eta",
                "goodMuon_phi", "goodMuon_mass", "goodMuon_charge"}, 0, {})

applyDimuonSelection ==
    /\ pc = "applyDimuonSelection"
    /\ Declare("calculateInvariantMass", {}, 2, {"nGoodMuon", "goodMuon_charge"})

calculateInvariantMass ==
    /\ pc = "calculateInvariantMass"
    /\ Declare("bookHistograms", {"dimuon_mass", "muon1_pt", "muon2_pt"}, 0, {})

\* bookHistograms, first part: the four Histo1D actions and the Report are
\* booked; nothing runs yet.
bookHistograms ==
    /\ pc = "bookHistograms"
    /\ IF ActionColumns \subseteq Known
       THEN /\ graph' = [graph EXCEPT !.histos = NHistos, !.report = TRUE]
            /\ engine' = "Built"
            /\ pc' = "eventLoop"
       ELSE /\ pc' = "thrown"
            /\ UNCHANGED << graph, engine >>
    /\ UNCHANGED << argv, config, exitCode, implicitMT, store, range, slots,
                    result, rowlog, stdout, stderr, files >>

\* ------------------------------------------------------- the event loop
Partitions_SkipHead(n, k) ==
    { b \in [1..(k + 1) -> 0..n] :
        /\ b[k + 1] = n
        /\ \A i \in 1..k : b[i] <= b[i + 1] }
\* Ways to cut rows [0, n) into k contiguous ranges, as k + 1 boundaries.
Partitions(n, k) ==
    { b \in [1..(k + 1) -> 0..n] :
        /\ b[1] = 0
        /\ b[k + 1] = n
        /\ \A i \in 1..k : b[i] <= b[i + 1] }

NewSlot_FromStart(lo, hi) ==
    [lo |-> lo, hi |-> hi, next |-> 0, merged |-> FALSE,
     accepted |-> ZeroCounters, rejected |-> ZeroCounters,
     histos |-> [h \in 1..NHistos |-> EmptyHisto(HistoModels[h])]]
\* A slot at the start of its range [lo, hi): nothing counted or filled.
NewSlot(lo, hi) ==
    [lo |-> lo, hi |-> hi, next |-> lo, merged |-> FALSE,
     accepted |-> ZeroCounters, rejected |-> ZeroCounters,
     histos |-> [h \in 1..NHistos |-> EmptyHisto(HistoModels[h])]]

\* h_dimuon_mass->GetEntries() starts the loop: one slot over the whole
\* range, or NSlots slots over a partition of it under implicit MT.
EventLoop_Start ==
    /\ pc = "eventLoop"
    /\ engine = "Built"
    /\ \E b \in Partitions(range, IF implicitMT THEN NSlots ELSE 1) :
         slots' = [w \in 1..(Len(b) - 1) |-> NewSlot(b[w], b[w + 1])]
    /\ rowlog' = [i \in 1..Len(store.rows) |->
                    [count |-> 0, evaluated |-> {}, oob |-> FALSE, threw |-> FALSE,
                     accepted |-> ZeroCounters, selected |-> FALSE, fills |-> <<>>]]
    /\ engine' = "Running"
    /\ UNCHANGED << argv, pc, config, exitCode, implicitMT, store, range,
                    graph, result, stdout, stderr, files >>

\* The slot's own counters and histograms after one more row.
AddRow(slot, r) ==
    [slot EXCEPT
       !.next = @ + 1,
       !.accepted = [k \in 1..NFilters |-> @[k] + r.accepted[k]],
       !.rejected = [k \in 1..NFilters |-> @[k] + r.rejected[k]],
       !.histos = IF r.selected
                  THEN [h \in 1..NHistos |-> Fill(@[h], r.fills[h])]
                  ELSE @]

\* Slot w processes the next row of its range.  An exception thrown by a
\* node leaves the loop and reaches main; what the slots held is dropped
\* with the loop and never read again.  The value g of an out-of-bounds
\* read is arbitrary; without such a read it plays no part.
ProcessRow(w) ==
    /\ engine = "Running"
    /\ slots[w].next < slots[w].hi
    /\ LET i == slots[w].next + 1
           r1 == RowResults[store.rows[i]][1]
       IN \E g \in (IF r1.oob THEN Garbage ELSE {1}) :
         LET r == RowResults[store.rows[i]][g]
         IN  /\ rowlog' = [rowlog EXCEPT ![i] =
                             [count |-> @.count + 1,
                              evaluated |-> @.evaluated \cup r.evaluated,
                              oob |-> @.oob \/ r.oob,
                              threw |-> r.throws,
                              accepted |-> r.accepted,
                              selected |-> r.selected,
                              fills |-> r.fills]]
             /\ IF r.throws
                THEN /\ engine' = "Aborted"
                     /\ pc' = "thrown"
                     /\ UNCHANGED slots
                ELSE /\ slots' = [slots EXCEPT ![w] = AddRow(@, r)]
                     /\ UNCHANGED << engine, pc >>
    /\ UNCHANGED << argv, config, exitCode, implicitMT, store, range, graph,
                    result, stdout, stderr, files >>

\* Folding one slot into the merged result.
MergeResult(res, slot) ==
    [accepted |-> [k \in 1..NFilters |-> res.accepted[k] + slot.accepted[k]],
     rejected |-> [k \in 1..NFilters |-> res.rejected[k] + slot.rejected[k]],
     histos   |-> [h \in 1..NHistos |-> MergeHisto(res.histos[h], slot.histos[h])]]

\* Once every slot has finished its range, the slots are folded into the
\* result, in any order; the last fold completes the loop.
MergeSlot(w) ==
    /\ engine = "Running"
    /\ \A v \in DOMAIN slots : slots[v].next = slots[v].hi
    /\ ~slots[w].merged
    /\ result' = MergeResult(result, slots[w])
    /\ slots' = [slots EXCEPT ![w].merged = TRUE]
    /\ engine' = IF \A v \in DOMAIN slots \ {w} : slots[v].merged
                 THEN "Completed" ELSE "Running"
    /\ UNCHANGED << argv, pc, config, exitCode, implicitMT, store, range,
                    graph, rowlog, stdout, stderr, files >>

\* RCutFlowReport: per filter the rows that passed and the rows that
\* reached it; the first `all` is the initial row count.
Report(res) ==
    [k \in 1..NFilters |->
       [pass |-> res.accepted[k], all |-> res.accepted[k] + res.rejected[k]]]

ResultReady_WhileRunning == engine \in {"Running", "Completed"}
\* h_dimuon_mass->GetEntries() returns once the loop it started is over.
ResultReady == engine = "Completed"

\* "Selected N dimuon events" and report->Print().
PrintResults ==
    /\ pc = "eventLoop"
    /\ ResultReady
    /\ stdout' = [selected |-> << result.histos[NHistos].entries >>,
                  cutflow |-> << Report(result) >>]
    /\ pc' = "write"
    /\ UNCHANGED << argv, config, exitCode, implicitMT, store, range, graph,
                    engine, slots, result, rowlog, stderr, files >>

\* ---------------------------------------------------------------- output
PlotNames == {"nJet.png", "muon1_pt.png", "muon2_pt.png", "dimuon_mass.png"}

\* The file system: the directories that exist; the empty path is the
\* working directory.  A file can be created in an existing directory.
ExistingDirs == { <<>>, <<".">> }
Parent(path) == SubSeq(path, 1, Len(path) - 1)
PlotPaths(c) == { c.outputDir \o <<name>> : name \in PlotNames }
Creatable(path) == Parent(path) \in ExistingDirs

\* TFile outFile(outputFile, "RECREATE") and the four Write() calls.  A
\* file that cannot be created leaves a zombie TFile: the constructor and
\* each Write() report an error and return, nothing is thrown.
WriteRootFile ==
    /\ pc = "write"
    /\ IF Creatable(config.outputFile)
       THEN /\ files' = files \cup {config.outputFile}
            /\ UNCHANGED stderr
       ELSE /\ stderr' = stderr \cup {config.outputFile}
            /\ UNCHANGED files
    /\ pc' = "savePlot"
    /\ UNCHANGED << argv, config, exitCode, implicitMT, store, range, graph,
                    engine, slots, result, rowlog, stdout >>

\* The four savePlot calls.  TCanvas::SaveAs into a directory that does
\* not exist reports an error and returns; "Saved ..." is printed anyway.
SavePlots ==
    /\ pc = "savePlot"
    /\ files' = files \cup { f \in PlotPaths(config) : Creatable(f) }
    /\ stderr' = stderr \cup { f \in PlotPaths(config) : ~Creatable(f) }
    /\ pc' = "return"
    /\ UNCHANGED << argv, config, exitCode, implicitMT, store, range, graph,
                    engine, slots, result, rowlog, stdout >>

\* main: return 0 after run(), return 1 from the catch clause.
Main_return ==
    /\ pc = "return"
    /\ exitCode' = <<0>>
    /\ pc' = "exited"
    /\ UNCHANGED << argv, config, implicitMT, store, range, graph, engine,
                    slots, result, rowlog, stdout, stderr, files >>

Main_catch ==
    /\ pc = "thrown"
    /\ exitCode' = <<1>>
    /\ pc' = "exited"
    /\ UNCHANGED << argv, config, implicitMT, store, range, graph, engine,
                    slots, result, rowlog, stdout, stderr, files >>

Next ==
    \/ Main_parseArgs
    \/ Run_EnableImplicitMT
    \/ Run_RDataFrame
    \/ Run_Range
    \/ applyTriggerSelection
    \/ applyMuonSelection
    \/ applyDimuonSelection
    \/ calculateInvariantMass
    \/ bookHistograms
    \/ EventLoop_Start
    \/ \E w \in DOMAIN slots : ProcessRow(w)
    \/ \E w \in DOMAIN slots : MergeSlot(w)
    \/ PrintResults
    \/ WriteRootFile
    \/ SavePlots
    \/ Main_return
    \/ Main_catch

Spec == Init /\ [][Next]_vars

\* =============================================================== claims
\* The selection as the specification words it, for a row of the store.
WellFormed(row) ==
    \A n \in { Len(row.Muon_eta), Len(row.Muon_phi), Len(row.Muon_mass),
               Len(row.Muon_charge), Len(row.Muon_tightId), Len(row.Muon_mediumId),
               Len(row.Muon_pfRelIso04_all) } :
        n = Len(row.Muon_pt)
SpecGood(row, j) ==
    /\ row.Muon_pt[j] > 20
    /\ row.Muon_eta[j] < 24 /\ row.Muon_eta[j] > -24
    /\ row.Muon_tightId[j]
    /\ row.Muon_pfRelIso04_all[j] < 15
SpecGoodIndices(row) == { j \in 1..Len(row.Muon_pt) : SpecGood(row, j) }
SpecOppositeSign(row) ==
    \E a, b \in SpecGoodIndices(row) :
        a < b /\ row.Muon_charge[a] * row.Muon_charge[b] < 0
\* The first filter a row fails, NFilters + 1 when it fails none.
SpecFirstFail(row) ==
    IF ~(row.HLT_IsoMu24 \/ row.HLT_IsoMu18) THEN 1
    ELSE IF Cardinality(SpecGoodIndices(row)) # 2 THEN 2
    ELSE IF ~SpecOppositeSign(row) THEN 3
    ELSE 4
\* The derived columns each filter, and last the histograms, ask for.
SpecStageDefines ==
    << {"passTrigger"}, {"goodMuon_mask", "nGoodMuon"}, {"goodMuon_charge"},
       {"goodMuon_pt", "goodMuon_eta", "goodMuon_phi", "goodMuon_mass",
        "dimuon_mass", "muon1_pt", "muon2_pt"} >>

Processed == { i \in DOMAIN rowlog : rowlog[i].count > 0 /\ WellFormed(store.rows[i]) }
Exposed == 1..range
Completed == engine = "Completed"
CountRows(P(_)) == Cardinality({ i \in Exposed : P(store.rows[i]) })

\* C1: the filters run in declaration order (trigger, exactly two good
\* muons, opposite sign) and a row stops at the first filter it fails: it
\* is counted as passing exactly the filters before that one, and only the
\* derived columns of the filters up to that one were evaluated for it; in
\* the final report each filter's pass-count is the number of rows whose
\* first failing filter comes later.
C1_FiltersInOrderShortCircuit ==
    /\ \A i \in Processed :
         LET k == SpecFirstFail(store.rows[i]) IN
           /\ rowlog[i].accepted = [j \in 1..NFilters |-> IF j < k THEN 1 ELSE 0]
           /\ rowlog[i].evaluated = UNION { SpecStageDefines[j] : j \in 1..k }
    /\ Completed =>
         \A j \in 1..NFilters :
            LET Later(row) == SpecFirstFail(row) > j
            IN  Report(result)[j].pass = CountRows(Later)

\* C1 witness: a completed run with a row rejected at the pair filter
\* (counted by the trigger filter only) and a row rejected at the trigger.
C1_Witness ==
    /\ Completed
    /\ \E i \in Processed : SpecFirstFail(store.rows[i]) = 2
    /\ \E i \in Processed : SpecFirstFail(store.rows[i]) = 1
    /\ Report(result)[1].pass = 1
    /\ Report(result)[2].pass = 0

\* C2: once the loop has completed, each of the four histograms has as
\* many entries as rows passed the last filter, and that is the number of
\* selected events printed; while the loop runs the same holds per slot.
C2_EntriesEqualLastPassCount ==
    /\ \A w \in DOMAIN slots : \A h \in 1..NHistos :
         slots[w].histos[h].entries = slots[w].accepted[NFilters]
    /\ Completed =>
         /\ \A h \in 1..NHistos :
              result.histos[h].entries = Report(result)[NFilters].pass
         /\ has_value(stdout.selected) =>
              /\ value(stdout.selected) = Report(result)[NFilters].pass
              /\ value(stdout.cutflow) = Report(result)

\* C2 witness: results printed, with a selected row and a row that passed
\* the pair filter but not the last one.
C2_Witness ==
    /\ pc = "write"
    /\ value(stdout.selected) = 1
    /\ Report(result)[NFilters].all = 2

\* The counters of one sequential pass over rows 1..n of the store.
RECURSIVE SequentialCounters(_, _)
SequentialCounters(rows, n) ==
    IF n = 0 THEN [accepted |-> ZeroCounters, rejected |-> ZeroCounters]
    ELSE LET before == SequentialCounters(rows, n - 1)
             k == SpecFirstFail(rows[n])
         IN  [accepted |-> [j \in 1..NFilters |->
                              before.accepted[j] + (IF j < k THEN 1 ELSE 0)],
              rejected |-> [j \in 1..NFilters |->
                              before.rejected[j] + (IF j = k THEN 1 ELSE 0)]]
SequentialReport(rows, n) ==
    [j \in 1..NFilters |->
       [pass |-> SequentialCounters(rows, n).accepted[j],
        all  |-> SequentialCounters(rows, n).accepted[j]
                 + SequentialCounters(rows, n).rejected[j]]]

SlotSum(W, F(_)) == SumSeq([w \in 1..Len(slots) |-> IF w \in W THEN F(slots[w]) ELSE 0])
\* The bin-by-bin sum of histogram h over the slots in W among slots 1..n.
PlusBins(a, b) == [i \in DOMAIN a |-> a[i] + b[i]]
RECURSIVE BinSum(_, _, _)
BinSum(W, h, n) ==
    IF n = 0 THEN [b \in 0..(HistoModels[h].nbins + 1) |-> 0]
    ELSE IF n \in W THEN PlusBins(BinSum(W, h, n - 1), slots[n].histos[h].bins)
    ELSE BinSum(W, h, n - 1)
MergedSlots == { w \in DOMAIN slots : slots[w].merged }
ResultIsSumOf(W) ==
    /\ \A k \in 1..NFilters :
         LET Acc(s) == s.accepted[k]
             Rej(s) == s.rejected[k]
         IN  /\ result.accepted[k] = SlotSum(W, Acc)
             /\ result.rejected[k] = SlotSum(W, Rej)
    /\ \A h \in 1..NHistos :
         LET Ent(s) == s.histos[h].entries
         IN  /\ result.histos[h].entries = SlotSum(W, Ent)
             /\ result.histos[h].bins = BinSum(W, h, Len(slots))
\* For histogram h: the bin each selected exposed row falls in.
SelectedBins(h) ==
    LET sel == { i \in Exposed : SpecFirstFail(store.rows[i]) = NFilters + 1 }
    IN  [i \in sel |-> FindBin(HistoModels[h],
                               ColumnValue(store.rows[i], 1, HistoModels[h].column),
                               ColumnScale(HistoModels[h].column))]
\* Every bin holds the number of rows that fall in it.
BinsCount(bins, target) ==
    \A b \in DOMAIN bins : bins[b] = Cardinality({ i \in DOMAIN target : target[i] = b })

C5_MultithreadedIffNoRowLimit ==
    /\ has_value(config.maxEvents) =>
         /\ ~implicitMT
         /\ Len(slots) <= 1
         /\ \A i \in DOMAIN rowlog : rowlog[i].count <= 1
    /\ store.opened => (implicitMT <=> ~has_value(config.maxEvents))
    /\ engine \in {"Running", "Completed"} =>
         Len(slots) = (IF has_value(config.maxEvents) THEN 1 ELSE NSlots)

\* C5 witness: a row-limited run completed on its single slot.
C5_Witness ==
    /\ Completed
    /\ has_value(config.maxEvents)
    /\ Len(slots) = 1
    /\ slots[1].hi = 1
    /\ Len(store.rows) = 2

\* C6 (as claimed): with a row limit N stored by parseArgs the initial row
\* count of the cutflow is min(N, rows of the store) and no row of index
\* >= N is processed.  Stated for the limits N >= 0 only, where min(N, T)
\* is a row count.
C6_RowLimitExposesFirstN ==
    Completed /\ has_value(config.maxEvents) /\ value(config.maxEvents) >= 0 =>
        LET N == value(config.maxEvents) IN
          /\ Report(result)[1].all = Min(N, Len(store.rows))
          /\ \A i \in DOMAIN rowlog : i > N => rowlog[i].count = 0

TrueIndices(mask) == { j \in DOMAIN mask : mask[j] # 0 }

\* T is the set of set mask entries of the row, log its rowlog entry.
PairAndOpposite(row, T, log) ==
    /\ log.accepted[2] = 1 => Cardinality(T) = 2
    /\ (log.accepted[3] = 1 \/ log.selected) =>
         /\ Cardinality(T) = 2
         /\ \A a, b \in T : a < b => row.Muon_charge[a] * row.Muon_charge[b] < 0
HasOppositePair(row, T) ==
    /\ Cardinality(T) = 2
    /\ \A a, b \in T : a < b => row.Muon_charge[a] * row.Muon_charge[b] < 0
HasOppositePairOf(row) == HasOppositePair(row, TrueIndices(MaskOf(row)))

\* C7: a row counted as passing the pair filter has exactly two set mask
\* entries; a row counted as passing the opposite-sign filter has, besides,
\* a negative product of the charges of the two masked objects; a row fills
\* the histograms only if it passed both, so the entries never exceed the
\* number of such rows.
C7_PassingRowsSatisfyFilters ==
    /\ \A i \in Processed :
         PairAndOpposite(store.rows[i], TrueIndices(MaskOf(store.rows[i])), rowlog[i])
    /\ \A h \in 1..NHistos : result.histos[h].entries <= CountRows(HasOppositePairOf)

\* C7 witness: a completed run with a selected row and a row stopped at
\* the pair filter with three good muons.
C7_Witness ==
    /\ Completed
    /\ \E i \in Processed : rowlog[i].selected
    /\ \E i \in Processed :
         /\ rowlog[i].accepted[1] = 1
         /\ rowlog[i].accepted[2] = 0
         /\ Cardinality(TrueIndices(MaskOf(store.rows[i]))) = 3

\* The index in the source arrays of the k-th set mask entry.
KthTrue(mask, k) ==
    CHOOSE j \in DOMAIN mask :
        mask[j] # 0 /\ Cardinality({ l \in 1..j : mask[l] # 0 }) = k
SourceOf(row, d) ==
    CASE d = "goodMuon_pt"     -> row.Muon_pt
      [] d = "goodMuon_eta"    -> row.Muon_eta
      [] d = "goodMuon_phi"    -> row.Muon_phi
      [] d = "goodMuon_mass"   -> row.Muon_mass
      [] d = "goodMuon_charge" -> row.Muon_charge
MaskedOf(row, d) ==
    CASE d = "goodMuon_pt"     -> goodMuon_pt(row)
      [] d = "goodMuon_eta"    -> goodMuon_eta(row)
      [] d = "goodMuon_phi"    -> goodMuon_phi(row)
      [] d = "goodMuon_mass"   -> goodMuon_mass(row)
      [] d = "goodMuon_charge" -> goodMuon_charge(row)
MaskedCollections ==
    {"goodMuon_pt", "goodMuon_eta", "goodMuon_phi", "goodMuon_mass", "goodMuon_charge"}

\* A masked collection holds the n source entries at the set mask entries.
Ordered(masked, source, mask, n) ==
    /\ Len(masked) = n
    /\ \A k \in 1..n : masked[k] = source[KthTrue(mask, k)]
Aligned(row, mask, evaluated) ==
    /\ Len(mask) = Len(row.Muon_pt)
    /\ DOMAIN mask = DOMAIN row.Muon_eta
    /\ DOMAIN mask = DOMAIN row.Muon_tightId
    /\ DOMAIN mask = DOMAIN row.Muon_pfRelIso04_all
    /\ nGoodMuon(mask) = Cardinality(TrueIndices(mask))
    /\ \A d \in MaskedCollections \cap evaluated :
         Ordered(MaskedOf(row, d), SourceOf(row, d), mask, Cardinality(TrueIndices(mask)))

\* C8: on every row the muon selection ran for, the mask has the length
\* and the indices of the muon arrays, nGoodMuon is the number of set mask
\* entries, and every masked collection evaluated for the row has
\* nGoodMuon entries, the k-th being the source entry at the k-th set
\* mask entry.
C8_MaskAlignedAndCollectionsOrdered ==
    \A i \in Processed :
      "goodMuon_mask" \in rowlog[i].evaluated =>
         Aligned(store.rows[i], MaskOf(store.rows[i]), rowlog[i].evaluated)

\* C8 witness: a selected row of three muons whose first is masked out and
\* whose two good muons differ in every masked column that can differ.
C8_Witness ==
    \E i \in Processed :
      /\ rowlog[i].selected
      /\ MaskOf(store.rows[i]) = <<0, 1, 1>>
      /\ goodMuon_pt(store.rows[i]) = <<40, 45>>

\* The mask of the row is the quality cut as the specification words it.
MaskIsSpecGood(row, mask, log) ==
    /\ \A j \in 1..Len(row.Muon_pt) : (mask[j] # 0) <=> SpecGood(row, j)
    /\ log.accepted[1] = 1 =>
         (log.accepted[2] = 1 <=> Cardinality(SpecGoodIndices(row)) = 2)

\* C9: on every row the muon selection ran for, the mask entry of object j
\* is set exactly when pt > 20, |eta| < 2.4, tightId and isolation < 0.15,
\* all strict and whatever Muon_mediumId holds; hence a row that passed the
\* trigger passes the pair filter exactly when two objects satisfy this.
C9_MaskIsStrictQualityCut ==
    \A i \in Processed :
      "goodMuon_mask" \in rowlog[i].evaluated =>
         MaskIsSpecGood(store.rows[i], MaskOf(store.rows[i]), rowlog[i])

\* C9 witness: a processed row with a good muon and a muon exactly at
\* pt = 20 that is tight, isolated and central, and is masked out; the
\* row therefore fails the pair filter.
C9_Witness ==
    \E i \in Processed :
      LET row == store.rows[i] IN
        /\ Len(row.Muon_pt) = 2
        /\ row.Muon_pt[1] = 20 /\ row.Muon_eta[1] = 23 /\ row.Muon_tightId[1]
        /\ row.Muon_pfRelIso04_all[1] = 14
        /\ MaskOf(row) = <<0, 1>>
        /\ rowlog[i].accepted = <<1, 0, 0>>

\* C10: when the input store is missing, or lacks a required column, the
\* graph is never built to the point of running: no row is processed, no
\* output file or image is written, and the process can only exit with
\* code 1.
SourceError == store.opened /\ (~store.exists \/ ~(RequiredColumns \subseteq store.columns))
IsCount(a) == a # <<>> /\ \A j \in 1..Len(a) : IsDigit(a[j])
BadInput ==
    \E j \in 1..Len(argv) :
        \/ argv[j].opt = "?"
        \/ argv[j].opt = "n" /\ ~IsCount(argv[j].arg)
HelpAsked == argv # <<>> /\ argv[1].opt = "h"

\* C11 (as claimed): bad command-line input is rejected before the graph
\* is constructed: no node is declared, no row is read, nothing is
\* written, and the process can only exit with code 1;
\* -h exits with code 0 and runs nothing.
C11_BadInputRejectedBeforeGraph ==
    /\ BadInput =>
         /\ graph = EmptyGraph
         /\ rowlog = <<>>
         /\ files = {}
         /\ pc = "exited" => exitCode = <<1>>
    /\ HelpAsked =>
         /\ pc \in {"main", "exited"}
         /\ graph = EmptyGraph
         /\ pc = "exited" => exitCode = <<0>>

\* The artefacts of a finished output step that were not persisted.
NotPersisted == ({config.outputFile} \cup PlotPaths(config)) \ files

\* C12 (as claimed): when the ROOT file or an image could not be
\* persisted, the failure is reported and the process exits with a nonzero
\* code, while the merged histograms and counters stay those of the
\* completed loop.
C12_OutputFailureExitsNonzero ==
    pc \in {"return", "exited"} /\ Completed /\ NotPersisted # {} =>
        /\ NotPersisted \subseteq stderr
        /\ result.histos[NHistos].entries = value(stdout.selected)
        /\ Report(result) = value(stdout.cutflow)
        /\ pc = "exited" => has_value(exitCode) /\ value(exitCode) # 0

\* The per-muon arrays the selection reads all have the same length.
SameLengths(row) ==
    \A n \in { Len(row.Muon_eta), Len(row.Muon_phi), Len(row.Muon_mass),
               Len(row.Muon_charge), Len(row.Muon_tightId),
               Len(row.Muon_pfRelIso04_all) } :
        n = Len(row.Muon_pt)

\* C13 (as claimed): processing an event whose per-muon arrays differ in
\* length aborts the run, so a completed run has no such event among the
\* rows its counters and histograms were computed from.
C13_MalformedEventAbortsRun ==
    /\ \A i \in DOMAIN rowlog :
         rowlog[i].count > 0 /\ ~SameLengths(store.rows[i]) => engine = "Aborted"
    /\ Completed => \A i \in Exposed : SameLengths(store.rows[i])

\* C14 (as claimed): for every selected event the value filled into
\* h_muon1_pt ("Leading Muon p_T") is at least the value filled into
\* h_muon2_pt ("Subleading Muon p_T"), and so is its bin.
C14_LeadingNotBelowSubleading ==
    \A i \in Processed :
      rowlog[i].selected =>
        /\ muon1_pt(store.rows[i], 1) >= muon2_pt(store.rows[i], 1)
        /\ rowlog[i].fills[2] >= rowlog[i].fills[3]

\* The bin of histogram h a value x of its column falls in.
BinOf(h, x) == FindBin(HistoModels[h], x, ColumnScale(HistoModels[h].column))

\* The four-vector of the object at source index j.
SourceVector(row, j) ==
    PtEtaPhiMVector(row.Muon_pt[j], row.Muon_eta[j], row.Muon_phi[j], row.Muon_mass[j])
FilledFrom(row, j1, j2, mass, log) ==
    /\ muon1_pt(row, 1) = row.Muon_pt[j1]
    /\ muon2_pt(row, 1) = row.Muon_pt[j2]
    /\ dimuon_massOf(row, 1) = mass
    /\ log.fills = << BinOf(1, row.nJet), BinOf(2, row.Muon_pt[j1]),
                      BinOf(3, row.Muon_pt[j2]), BinOf(4, mass) >>
PairIs(row, j1, j2, log) ==
    /\ j1 < j2
    /\ log.accepted[3] = 1 <=> row.Muon_charge[j1] * row.Muon_charge[j2] < 0
    /\ log.selected =>
         FilledFrom(row, j1, j2,
                    InvariantMass(SourceVector(row, j1), SourceVector(row, j2)), log)
PairInSourceOrder(row, mask, log) == PairIs(row, KthTrue(mask, 1), KthTrue(mask, 2), log)

EngineInv ==
    /\ engine \in {"NotBuilt", "Built"} =>
         rowlog = <<>> /\ slots = <<>> /\ result = EmptyResult
    /\ engine # "NotBuilt" =>
         /\ graph.filters = NFilters
         /\ graph.histos = NHistos
         /\ graph.report
    /\ engine = "Built" => pc = "eventLoop"
    /\ \A i \in DOMAIN rowlog : rowlog[i].count <= 1
    /\ \A w \in DOMAIN slots : \A h \in 1..NHistos :
         slots[w].histos[h].entries = slots[w].histos[1].entries
    /\ (has_value(stdout.selected) \/ has_value(stdout.cutflow)
          \/ files # {} \/ stderr # {} \/ pc \in {"write", "savePlot", "return"})
         => Completed
\* What a step may do to the engine.
EngineStep ==
    /\ engine' # engine =>
         \/ engine = "NotBuilt" /\ engine' = "Built" /\ pc = "bookHistograms"
         \/ /\ engine = "Built" /\ engine' = "Running"
            /\ pc = "eventLoop" /\ ~has_value(stdout.selected)
         \/ engine = "Running" /\ engine' \in {"Completed", "Aborted"}
    /\ rowlog' # rowlog => engine' \in {"Running", "Aborted"}
    /\ engine = "Completed" => result' = result /\ slots' = slots

\* C16: the engine goes NotBuilt -> Built -> Running -> Completed (or
\* Aborted) and never back.  Declaring the graph and booking the four
\* histograms and the report processes no row; the loop starts at the
\* read of the h_dimuon_mass entries, after everything was booked, and is
\* the only loop: no row is processed twice and all four histograms are
\* filled in it together; nothing is printed, written or rendered before
\* the loop has completed, and the result does not change afterwards.
C16_EngineBuiltRunningCompletedOnce == []EngineInv /\ [][EngineStep]_vars

\* C16 witness: a run that has exited with code 0 after a completed loop
\* over two rows that filled every histogram once and wrote every artefact.
C16_Witness ==
    /\ pc = "exited"
    /\ exitCode = <<0>>
    /\ Completed
    /\ \A i \in DOMAIN rowlog : rowlog[i].count = 1
    /\ Len(rowlog) = 2
    /\ \A h \in 1..NHistos : result.histos[h].entries = 1
    /\ files = {<<"output.root">>} \cup { <<".", name>> : name \in PlotNames }

\* The slots whose range holds row i (rows are numbered from 1, a range
\* [lo, hi) holds the rows lo + 1 .. hi).
Owners(i) == { w \in DOMAIN slots : slots[w].lo < i /\ i <= slots[w].hi }

C18_IndexedCollectionsHaveTwoEntries ==
    \A i \in DOMAIN rowlog :
      rowlog[i].count > 0 =>
        LET row == store.rows[i] IN
          /\ ~rowlog[i].oob
          /\ "goodMuon_charge" \in rowlog[i].evaluated /\ ~StageThrows(row, 3) =>
               /\ rowlog[i].accepted[2] = 1
               /\ nGoodMuonOf(row) = 2
               /\ Len(goodMuon_charge(row)) = 2
          /\ ({"dimuon_mass", "muon1_pt", "muon2_pt"} \cap rowlog[i].evaluated # {}
                /\ ~rowlog[i].threw) =>
               /\ rowlog[i].accepted[NFilters] = 1
               /\ \A d \in MaskedCollections : Len(MaskedOf(row, d)) = 2
          /\ Len(row.Muon_pt) < 2 =>
               /\ rowlog[i].accepted[2] = 0
               /\ rowlog[i].evaluated \cap
                    {"goodMuon_charge", "dimuon_mass", "muon1_pt", "muon2_pt"} = {}

\* C18 witness: a completed run over an event without muons that passed
\* the trigger and stopped at the pair filter, and a selected event whose
\* collections were indexed.
C18_Witness ==
    /\ Completed
    /\ \E i \in DOMAIN rowlog :
         /\ rowlog[i].count = 1
         /\ Len(store.rows[i].Muon_pt) = 0
         /\ rowlog[i].accepted = <<1, 0, 0>>
         /\ rowlog[i].evaluated = {"passTrigger", "goodMuon_mask", "nGoodMuon"}
    /\ \E i \in DOMAIN rowlog :
         /\ rowlog[i].selected
         /\ "muon2_pt" \in rowlog[i].evaluated
         /\ Len(goodMuon_charge(store.rows[i])) = 2
====
